---- MODULE Spec2Model ----
(***************************************************************************)
(* Verification model of the tutorial notebooks:                           *)
(*   - the valence-bond DMFT loop (Hilbert transform, Weiss field update,  *)
(*     solver call, master-node archive write);                            *)
(*   - the TPSC root problems of the TPSC notebook and of the              *)
(*     Mermin-Wagner notebook;                                             *)
(*   - the fill loop of the Lindhard bubble.                               *)
(* Numbers are exact complex rationals <<re, im, den>> (value (re+i*im)/den*)
(* with den > 0, in lowest terms).  <<0, 0, 0>> stands for the non-finite  *)
(* value (inf/nan) that floating point division by zero produces.          *)
(***************************************************************************)
EXTENDS Integers, Sequences, FiniteSets, TLC

\* ------------------------------------------------------------------------
\* Bounds of the model (the notebooks use n_bins = 50, n_loops = 10).
n_bins == 2
n_loops == 2
n_ranks == 2
\* Bounds of the TPSC inputs and of the bubble's meshes (the notebooks use
\* n_k = 32 points per direction and n_w = 128 frequencies).
n_k == 2
n_w == 1
n_r == 3
n_tau == 2

\* ------------------------------------------------------------------------
\* Complex rational arithmetic (numpy / Gf arithmetic of the notebooks)

Abs(x) == IF x < 0 THEN -x ELSE x

RECURSIVE Gcd(_, _)
Gcd(a, b) == IF b = 0 THEN a ELSE Gcd(b, a % b)

NaN == <<0, 0, 0>>

IsFinite(x) == x[3] # 0

\* lowest terms, positive denominator
Norm(a, b, d) ==
    IF d = 0 THEN NaN
    ELSE LET g == Gcd(Gcd(Abs(a), Abs(b)), Abs(d))
             s == IF d > 0 THEN 1 ELSE -1
         IN  <<s * (a \div g), s * (b \div g), s * (d \div g)>>

\* the real number n/d
Real(n, d) == Norm(n, 0, d)

CZero == <<0, 0, 1>>
COne == <<1, 0, 1>>

CAdd(x, y) ==
    IF ~IsFinite(x) \/ ~IsFinite(y) THEN NaN
    ELSE LET g == Gcd(x[3], y[3])
             l == x[3] \div g
             m == y[3] \div g
         IN  Norm(x[1] * m + y[1] * l, x[2] * m + y[2] * l, l * y[3])

CNeg(x) == <<-x[1], -x[2], x[3]>>

CSub(x, y) == CAdd(x, CNeg(y))

CMul(x, y) ==
    IF ~IsFinite(x) \/ ~IsFinite(y) THEN NaN
    ELSE Norm(x[1] * y[1] - x[2] * y[2], x[1] * y[2] + x[2] * y[1], x[3] * y[3])

\* inverse(z); division by zero gives the non-finite value
CInv(x) ==
    IF ~IsFinite(x) \/ (x[1] = 0 /\ x[2] = 0) THEN NaN
    ELSE Norm(x[3] * x[1], -(x[3] * x[2]), x[1] * x[1] + x[2] * x[2])

\* z.real
CReal(x) == IF IsFinite(x) THEN Norm(x[1], 0, x[3]) ELSE NaN

\* z.imag
CImag(x) == IF IsFinite(x) THEN Norm(x[2], 0, x[3]) ELSE NaN

\* x < y and x <= y for real values
RLess(x, y) == x[1] * y[3] < y[1] * x[3]
RLeq(x, y) == x[1] * y[3] <= y[1] * x[3]

\* ========================================================================
\* Valence-bond DMFT notebook
\* ========================================================================

VARIABLES
    mu,         \* the chemical potential
    energies,   \* energies[patch]: the band energies of the k points of a patch
    epsilon,    \* epsilon[patch][i]: the centre of bin i
    rho,        \* rho[patch][i]: the partial density of states in bin i
    delta,      \* delta[patch]: the width of a bin
    it,         \* it[r]: loop variable of rank r
    pc,         \* pc[r]: the statement rank r executes next
    idx,        \* idx[r]: position in the (spin, patch) loops of the Hilbert transform
    G,          \* G[r]: the local lattice Green's function of rank r
    S,          \* S[r]: the solver's G0_iw, Sigma_iw and G_iw of rank r
    archive,    \* results.h5
    solved      \* the results of the solver runs so far, in order

dmft_vars == <<mu, energies, epsilon, rho, delta, it, pc, idx, G, S, archive, solved>>

VARIABLES
    tp,         \* TPSC notebooks: the arguments chi0, Usp, Uch, n, U, docc
    out         \* TPSC notebooks: what each function called so far returned

tpsc_vars == <<tp, out>>

VARIABLES
    grt,        \* bubble: g(r, tau), the Fourier transform of g0
    chi0,       \* bubble: chi0(r, tau)
    bpc,        \* bubble: the statement executed next
    pos         \* bubble: how many passes of the loop body are done

bubble_vars == <<grt, chi0, bpc, pos>>

vars == <<dmft_vars, tpsc_vars, bubble_vars>>

\* the notebooks that are not running
TpscIdle == tp = <<>> /\ out = <<>>
BubbleIdle == grt = <<>> /\ chi0 = <<>> /\ bpc = "idle" /\ pos = 0

Ranks == 0 .. (n_ranks - 1)

\* values tried for the chemical potential mu of the Parameters cell
MuValues == {Real(1, 1), Real(1, 2)}

\* the fermionic Matsubara mesh of the solver: odd integers w = 2n+1; the
\* frequency is i*w in units of pi/beta
Mesh == {-1, 1}

iOmega_n(w) == <<0, w, 1>>

Patches == <<"even", "odd">>
Spins == <<"up", "down">>

gf_struct == <<"even-up", "odd-up", "even-down", "odd-down">>

BlockNames == {gf_struct[k] : k \in DOMAIN gf_struct}

\* '%s-%s' % (patch, spin)
BlockName(patch, spin) == patch \o "-" \o spin

\* a Green's function block holding the same value at every frequency
ConstGf(c) == [w \in Mesh |-> c]

ConstBlockGf(c) == [b \in BlockNames |-> ConstGf(c)]

\* -------- Exercise 2: partial densities of states

\* samples of the energies np.extract finds in the two patches
EnergySamples ==
    { [p \in {"even", "odd"} |-> IF p = "even" THEN <<-2, 0, 1, 4>> ELSE <<-1, 0, 5>>],
      [p \in {"even", "odd"} |-> IF p = "even" THEN <<-1, 0, 5>> ELSE <<-3, -1, 0, 3>>] }

RECURSIVE SeqMin(_)
SeqMin(a) ==
    IF Len(a) = 1 THEN a[1]
    ELSE LET m == SeqMin(Tail(a)) IN IF a[1] < m THEN a[1] ELSE m

RECURSIVE SeqMax(_)
SeqMax(a) ==
    IF Len(a) = 1 THEN a[1]
    ELSE LET m == SeqMax(Tail(a)) IN IF a[1] > m THEN a[1] ELSE m

\* np.histogram(a, bins=bins, normed=True): h[0] the bins' densities and h[1]
\* the bins+1 equally spaced edges from min(a) to max(a); a bin holds
\* edge <= e < next edge, the last bin also its right edge.  0-based arrays.
histogram(a, bins) ==
    LET lo == SeqMin(a)
        hi == SeqMax(a)
        edges == [i \in 0 .. bins |-> CAdd(Real(lo, 1), Real(i * (hi - lo), bins))]
        InBin(e, i) ==
            /\ RLeq(edges[i], Real(e, 1))
            /\ \/ RLess(Real(e, 1), edges[i + 1])
               \/ (i = bins - 1 /\ RLeq(Real(e, 1), edges[i + 1]))
        count(i) == Cardinality({k \in DOMAIN a : InBin(a[k], i)})
        width == CSub(edges[1], edges[0])
    IN  <<[i \in 0 .. (bins - 1) |-> CMul(Real(count(i), Len(a)), CInv(width))], edges>>

\* epsilon[patch] = 0.5 * (h[1][0:-1] + h[1][1:])
midpoints(h) ==
    LET last == CHOOSE i \in DOMAIN h[2] : \A j \in DOMAIN h[2] : j <= i
    IN  [i \in 0 .. (last - 1) |-> CMul(Real(1, 2), CAdd(h[2][i], h[2][i + 1]))]

\* delta[patch] = h[1][1] - h[1][0]
binwidth(h) == CSub(h[2][1], h[2][0])

\* for patch in ['even','odd']: h = np.histogram(energies[patch], bins=n_bins, normed=True) ...
Exercise2 ==
    LET h == [p \in {"even", "odd"} |-> histogram(energies[p], n_bins)]
    IN  /\ epsilon = [p \in {"even", "odd"} |-> midpoints(h[p])]
        /\ rho = [p \in {"even", "odd"} |-> h[p][1]]
        /\ delta = [p \in {"even", "odd"} |-> binwidth(h[p])]

\* -------- Exercise 4: the DMFT loop

\* zero with a fault: G keeps what the previous iteration left in it
zero_skipped(g) == g

\* G.zero()
zero(g) == [b \in DOMAIN g |-> [w \in Mesh |-> CZero]]

\* for i in range(n_bins): G[block] += rho[patch][i] * delta[patch] *
\*     inverse(iOmega_n + mu - epsilon[patch][i] - S.Sigma_iw[block])
RECURSIVE HilbertLoop(_, _, _, _)
HilbertLoop(g, patch, sigma, i) ==
    IF i >= n_bins THEN g
    ELSE HilbertLoop(
            [w \in Mesh |->
                CAdd(g[w],
                     CMul(CMul(rho[patch][i], delta[patch]),
                          CInv(CSub(CSub(CAdd(iOmega_n(w), mu), epsilon[patch][i]),
                                    sigma[w]))))],
            patch, sigma, i + 1)

\* WeissField with a fault: the self-energy enters with the wrong sign
WeissField_minus(g, sigma) == [w \in Mesh |-> CInv(CSub(CInv(g[w]), sigma[w]))]

\* g0 << inverse(inverse(G[block]) + S.Sigma_iw[block])
WeissField(g, sigma) == [w \in Mesh |-> CInv(CAdd(CInv(g[w]), sigma[w]))]

\* mpi.is_master_node()
is_master_node(r) == r = 0

\* What S.solve leaves in S.Sigma_iw and S.G_iw: the Monte Carlo result, here
\* one of a few self-energies with Im Sigma(iw) of the sign opposite to w.
Sigma0 == [w \in Mesh |-> Real(0, 1)]
Sigma1 == [w \in Mesh |-> Norm(1, -w, 2)]
Sigma2 == [w \in Mesh |-> Norm(1, -(2 * w), 1)]
Giw1 == [w \in Mesh |-> Norm(0, -w, 2)]
Giw2 == [w \in Mesh |-> Norm(1, -w, 3)]

SolverOutcomes ==
    { [Sigma_iw |-> [b \in BlockNames |-> IF b \in {"even-up", "even-down"} THEN Sigma1 ELSE Sigma0],
       G_iw |-> [b \in BlockNames |-> Giw1]],
      [Sigma_iw |-> [b \in BlockNames |-> IF b = "even-up" THEN Sigma2 ELSE Sigma1],
       G_iw |-> [b \in BlockNames |-> IF b = "odd-down" THEN Giw1 ELSE Giw2]] }

\* solve_result with a fault: every rank keeps the result of its own sampling
solve_local(reduced, own) == own

\* S.solve is collective: every rank returns holding the same result, the
\* reduction over all ranks' samples (own is what the rank alone sampled).
solve_result(reduced, own) == reduced

\* the state when the loop cell starts: the histograms of Exercise 2 are made,
\* S = Solver(beta, gf_struct, n_l) and G = S.G0_iw.copy() hold zeros
DmftInit ==
    /\ TpscIdle
    /\ BubbleIdle
    /\ mu \in MuValues
    /\ energies \in EnergySamples
    /\ Exercise2
    /\ it = [r \in Ranks |-> 0]
    /\ pc = [r \in Ranks |-> "guess"]
    /\ idx = [r \in Ranks |-> 0]
    /\ S = [r \in Ranks |-> [G0_iw |-> ConstBlockGf(CZero),
                             Sigma_iw |-> ConstBlockGf(CZero),
                             G_iw |-> ConstBlockGf(CZero)]]
    /\ G = [r \in Ranks |-> ConstBlockGf(CZero)]
    /\ archive = <<>>
    /\ solved = <<>>

\* S.Sigma_iw << mu
InitialGuess(r) ==
    /\ pc[r] = "guess"
    /\ S' = [S EXCEPT ![r].Sigma_iw = ConstBlockGf(mu)]
    /\ pc' = [pc EXCEPT ![r] = "loop"]
    /\ UNCHANGED <<mu, energies, epsilon, rho, delta, it, idx, G, archive, solved>>
    /\ UNCHANGED <<tpsc_vars, bubble_vars>>

\* for it in range(n_loops): G.zero()
LoopZero(r) ==
    /\ pc[r] = "loop"
    /\ it[r] < n_loops
    /\ G' = [G EXCEPT ![r] = zero(G[r])]
    /\ idx' = [idx EXCEPT ![r] = 0]
    /\ pc' = [pc EXCEPT ![r] = "hilbert"]
    /\ UNCHANGED <<mu, energies, epsilon, rho, delta, it, S, archive, solved>>
    /\ UNCHANGED <<tpsc_vars, bubble_vars>>

\* range(n_loops) is exhausted
LoopEnd(r) ==
    /\ pc[r] = "loop"
    /\ it[r] >= n_loops
    /\ pc' = [pc EXCEPT ![r] = "done"]
    /\ UNCHANGED <<mu, energies, epsilon, rho, delta, it, idx, G, S, archive, solved>>
    /\ UNCHANGED <<tpsc_vars, bubble_vars>>

\* one pass of the body of: for spin in [...]: for patch in [...]: (Hilbert transform)
Hilbert(r) ==
    /\ pc[r] = "hilbert"
    /\ LET spin == Spins[(idx[r] \div Len(Patches)) + 1]
           patch == Patches[(idx[r] % Len(Patches)) + 1]
           block == BlockName(patch, spin)
       IN  /\ G' = [G EXCEPT ![r][block] =
                        HilbertLoop(G[r][block], patch, S[r].Sigma_iw[block], 0)]
           /\ idx' = [idx EXCEPT ![r] = idx[r] + 1]
           /\ pc' = [pc EXCEPT ![r] =
                        IF idx[r] + 1 = Len(Spins) * Len(Patches) THEN "weiss" ELSE "hilbert"]
    /\ UNCHANGED <<mu, energies, epsilon, rho, delta, it, S, archive, solved>>
    /\ UNCHANGED <<tpsc_vars, bubble_vars>>

\* for block, g0 in S.G0_iw: g0 << inverse(inverse(G[block]) + S.Sigma_iw[block])
Weiss(r) ==
    /\ pc[r] = "weiss"
    /\ S' = [S EXCEPT ![r].G0_iw =
                [block \in DOMAIN S[r].G0_iw |->
                    WeissField(G[r][block], S[r].Sigma_iw[block])]]
    /\ pc' = [pc EXCEPT ![r] = "solve"]
    /\ UNCHANGED <<mu, energies, epsilon, rho, delta, it, idx, G, archive, solved>>
    /\ UNCHANGED <<tpsc_vars, bubble_vars>>

\* S.solve(h_int = h_loc, ...): returns on all ranks together
Solve ==
    /\ \A r \in Ranks : pc[r] = "solve"
    /\ \E reduced \in SolverOutcomes, own \in [Ranks -> SolverOutcomes] :
          /\ S' = [r \in Ranks |->
                     [S[r] EXCEPT !.Sigma_iw = solve_result(reduced, own[r]).Sigma_iw,
                                  !.G_iw = solve_result(reduced, own[r]).G_iw]]
          /\ solved' = Append(solved, reduced)
    /\ pc' = [r \in Ranks |-> "archive"]
    /\ UNCHANGED <<mu, energies, epsilon, rho, delta, it, idx, G, archive>>
    /\ UNCHANGED <<tpsc_vars, bubble_vars>>

\* if mpi.is_master_node(): with HDFArchive("results.h5") as A: A[...] = ...
Archive(r) ==
    /\ pc[r] = "archive"
    /\ IF is_master_node(r)
       THEN LET new == {<<"G_iw", it[r]>>, <<"Sigma_iw", it[r]>>, <<"G0_iw", it[r]>>}
            IN  archive' = [k \in DOMAIN archive \cup new |->
                              IF k = <<"G_iw", it[r]>> THEN S[r].G_iw
                              ELSE IF k = <<"Sigma_iw", it[r]>> THEN S[r].Sigma_iw
                              ELSE IF k = <<"G0_iw", it[r]>> THEN S[r].G0_iw
                              ELSE archive[k]]
       ELSE UNCHANGED archive
    /\ it' = [it EXCEPT ![r] = it[r] + 1]
    /\ pc' = [pc EXCEPT ![r] = "loop"]
    /\ UNCHANGED <<mu, energies, epsilon, rho, delta, idx, G, S, solved>>
    /\ UNCHANGED <<tpsc_vars, bubble_vars>>

DmftNext ==
    \/ \E r \in Ranks : InitialGuess(r)
    \/ \E r \in Ranks : LoopZero(r)
    \/ \E r \in Ranks : LoopEnd(r)
    \/ \E r \in Ranks : Hilbert(r)
    \/ \E r \in Ranks : Weiss(r)
    \/ Solve
    \/ \E r \in Ranks : Archive(r)

\* ========================================================================
\* TPSC notebook
\* ========================================================================

\* A susceptibility chi(k, w) is [data, beta]: data[k][w] on the len(kmesh) x
\* len(wmesh) points of chi.mesh, beta the inverse temperature of wmesh.

\* what an assert that fails leaves instead of a value
AssertionError == <<"AssertionError">>

RECURSIVE SumSeq(_)
SumSeq(row) == IF row = <<>> THEN CZero ELSE CAdd(row[1], SumSeq(Tail(row)))

\* chi.data.sum()
DataSum(chi) == SumSeq([k \in DOMAIN chi.data |-> SumSeq(chi.data[k])])

\* def chi_rpa(chi0_kw, U): chi = chi0_kw.copy(); return chi * inverse(1 - float(U) * chi)
chi_rpa(chi0_kw, U) ==
    LET rpa(c) == CMul(c, CInv(CSub(COne, CMul(U, c))))
    IN  [data |-> [k \in DOMAIN chi0_kw.data |->
                     [w \in DOMAIN chi0_kw.data[k] |-> rpa(chi0_kw.data[k][w])]],
         beta |-> chi0_kw.beta]

\* trace = chi.data.sum() / len(kmesh) / wmesh.beta
\* assert(np.abs(trace.imag) < 1e-10); return trace.real
\* (a nonzero imaginary part of a number with a denominator below 2^31 is
\* above 1e-10, so the assertion passes exactly when the imaginary part is 0)
trace_chi_kw(chi) ==
    LET trace == CMul(CMul(DataSum(chi), CInv(Real(Len(chi.data), 1))),
                      CInv(Real(chi.beta, 1)))
    IN  IF IsFinite(trace) /\ CImag(trace) # CZero THEN AssertionError
        ELSE CReal(trace)

\* diff = 2*tr_chi_sp + 0.5 * Usp/U * n**2 - n
Usp_root_problem(Usp, chi0_kw, n, U) ==
    LET tr_chi_sp == trace_chi_kw(chi_rpa(chi0_kw, Usp))
    IN  IF tr_chi_sp = AssertionError THEN AssertionError
        ELSE CSub(CAdd(CMul(Real(2, 1), tr_chi_sp),
                       CMul(CMul(CMul(Real(1, 2), Usp), CInv(U)), CMul(n, n))),
                  n)

\* diff = 2*tr_chi_ch - 2 * docc - n + n**2
Uch_root_problem(Uch, chi0_kw, n, U, docc) ==
    LET tr_chi_ch == trace_chi_kw(chi_rpa(chi0_kw, CNeg(Uch)))
    IN  IF tr_chi_ch = AssertionError THEN AssertionError
        ELSE CAdd(CSub(CSub(CMul(Real(2, 1), tr_chi_ch), CMul(Real(2, 1), docc)), n),
                  CMul(n, n))

\* ========================================================================
\* Mermin-Wagner notebook
\* ========================================================================

\* def chi_rpa(chi0, U): return chi0 * inverse(1 - 0.5 * U * chi0)
chi_rpa_mw(chi0_kw, U) ==
    LET rpa(c) == CMul(c, CInv(CSub(COne, CMul(CMul(Real(1, 2), U), c))))
    IN  [data |-> [k \in DOMAIN chi0_kw.data |->
                     [w \in DOMAIN chi0_kw.data[k] |-> rpa(chi0_kw.data[k][w])]],
         beta |-> chi0_kw.beta]

\* trace = chi.data.sum() / len(kmesh) / wmesh.beta; return trace.real
trace_chi(chi) ==
    CReal(CMul(CMul(DataSum(chi), CInv(Real(Len(chi.data), 1))), CInv(Real(chi.beta, 1))))

\* diff = tr_chi_sp + 0.5 * Usp/U * n**2 - n
Usp_root(Usp, chi0_kw, n, U) ==
    LET tr_chi_sp == trace_chi(chi_rpa_mw(chi0_kw, Usp))
    IN  CSub(CAdd(tr_chi_sp, CMul(CMul(CMul(Real(1, 2), Usp), CInv(U)), CMul(n, n))), n)

\* diff = tr_chi - 2 * docc - n + n**2
Uch_root(Uch, chi0_kw, n, U, docc) ==
    LET tr_chi == trace_chi(chi_rpa_mw(chi0_kw, CNeg(Uch)))
    IN  CAdd(CSub(CSub(tr_chi, CMul(Real(2, 1), docc)), n), CMul(n, n))

\* -------- the calls

\* values of chi0 at a mesh point, inverse temperatures and arguments tried
ChiValues == {Real(1, 5), Real(2, 5), Norm(1, 1, 5)}
BetaValues == {1, 2}
VertexValues == {Real(1, 1), Real(2, 1)}
DensityValues == {Real(1, 1), Real(1, 2)}
DoccValues == {Real(1, 6), Real(1, 4)}

TpscInit ==
    /\ tp \in [chi0 : [data : [1 .. n_k -> [1 .. n_w -> ChiValues]], beta : BetaValues],
               Usp : VertexValues, Uch : VertexValues, n : DensityValues,
               U : VertexValues, docc : DoccValues]
    /\ out = <<>>

\* out once the function name has returned value
Returned(name, value) ==
    [f \in DOMAIN out \cup {name} |-> IF f = name THEN value ELSE out[f]]

CallChiRpa ==
    /\ "chi_rpa" \notin DOMAIN out
    /\ out' = Returned("chi_rpa", chi_rpa(tp.chi0, tp.Usp))
    /\ UNCHANGED <<tp, dmft_vars, bubble_vars>>

CallUspRootProblem ==
    /\ "Usp_root_problem" \notin DOMAIN out
    /\ out' = Returned("Usp_root_problem", Usp_root_problem(tp.Usp, tp.chi0, tp.n, tp.U))
    /\ UNCHANGED <<tp, dmft_vars, bubble_vars>>

CallUchRootProblem ==
    /\ "Uch_root_problem" \notin DOMAIN out
    /\ out' = Returned("Uch_root_problem",
                       Uch_root_problem(tp.Uch, tp.chi0, tp.n, tp.U, tp.docc))
    /\ UNCHANGED <<tp, dmft_vars, bubble_vars>>

CallChiRpaMW ==
    /\ "chi_rpa_mw" \notin DOMAIN out
    /\ out' = Returned("chi_rpa_mw", chi_rpa_mw(tp.chi0, tp.Usp))
    /\ UNCHANGED <<tp, dmft_vars, bubble_vars>>

CallUspRoot ==
    /\ "Usp_root" \notin DOMAIN out
    /\ out' = Returned("Usp_root", Usp_root(tp.Usp, tp.chi0, tp.n, tp.U))
    /\ UNCHANGED <<tp, dmft_vars, bubble_vars>>

CallUchRoot ==
    /\ "Uch_root" \notin DOMAIN out
    /\ out' = Returned("Uch_root", Uch_root(tp.Uch, tp.chi0, tp.n, tp.U, tp.docc))
    /\ UNCHANGED <<tp, dmft_vars, bubble_vars>>


\* ========================================================================
\* Mermin-Wagner notebook: the Lindhard bubble
\* ========================================================================

\* mr: the points <<x, y>> of the cyclic lattice, n_r per direction, in the
\* order the loop visits them
LatticePoint(k) == <<k \div n_r, k % n_r>>

mr == {LatticePoint(k) : k \in 0 .. (n_r * n_r - 1)}

\* an imaginary-time mesh: beta, statistic and number of points; point j is
\* the time j * beta / (size - 1)
gf_mesh_imtime(beta, statistic, size) ==
    [beta |-> beta, statistic |-> statistic, size |-> size]

MeshPoints(m) == 0 .. (m.size - 1)

\* the time of point j of mesh m, as a fraction
MeshTime(m, j) == Real(j * m.beta, m.size - 1)

\* -r on the cyclic lattice
NegR(r) == <<(n_r - r[1]) % n_r, (n_r - r[2]) % n_r>>

\* g(r, tau): the value of g at lattice point r and time tau, on the mesh
\* point of g's time mesh that has this time
EvalG(g, r, tau) ==
    LET j == CHOOSE k \in MeshPoints(g.mt) : MeshTime(g.mt, k) = tau
    IN  g.data[r][j]

\* the functions g(r, tau) that make_gf_from_fourier<0,1>(g0) may return
\* (inverse temperature beta, n_tau time points)
FourierResults ==
    { [mt |-> gf_mesh_imtime(beta, "Fermion", n_tau),
       data |-> [r \in mr |-> [j \in 0 .. (n_tau - 1) |->
                    Norm(1 + a * r[1] + 2 * b * r[2], c * j - r[1], 1 + j)]]] :
        a \in 0 .. 2, b \in 0 .. 2, c \in 0 .. 2, beta \in 1 .. 2 }

\* BubbleValue with a fault: the first factor is not reflected in time
BubbleValue_unreflected(g, beta, r, t) ==
    CMul(CMul(Real(2, 1), EvalG(g, NegR(r), t)), EvalG(g, r, t))

\* 2*grt(-r, beta - t) * grt(r, t)
BubbleValue(g, beta, r, t) ==
    CMul(CMul(Real(2, 1), EvalG(g, NegR(r), CSub(Real(beta, 1), t))), EvalG(g, r, t))

\* auto grt = make_gf_from_fourier<0,1>(g0); auto [mr, mt] = grt.mesh();
\* double beta = mt.domain().beta; auto mtb = gf_mesh<imtime>{beta, Boson, mt.size()};
\* auto chi0 = g_r_t_type{{mr, mtb}};
BubbleStart ==
    /\ bpc = "start"
    /\ \E g \in FourierResults :
          LET beta == g.mt.beta
              mtb == gf_mesh_imtime(beta, "Boson", g.mt.size)
          IN  /\ grt' = g
              /\ chi0' = [mtb |-> mtb,
                          data |-> [r \in mr |-> [j \in MeshPoints(mtb) |-> CZero]]]
    /\ bpc' = "fill"
    /\ pos' = 0
    /\ UNCHANGED <<dmft_vars, tpsc_vars>>

\* one pass of the body of: for (r : mr) for (t : mtb) chi0[r, t] = ...
Fill ==
    /\ bpc = "fill"
    /\ pos < n_r * n_r * chi0.mtb.size
    /\ LET r == LatticePoint(pos \div chi0.mtb.size)
           j == pos % chi0.mtb.size
           beta == grt.mt.beta
       IN  chi0' = [chi0 EXCEPT !.data[r][j] =
                        BubbleValue(grt, beta, r, MeshTime(chi0.mtb, j))]
    /\ pos' = pos + 1
    /\ UNCHANGED <<grt, bpc>>
    /\ UNCHANGED <<dmft_vars, tpsc_vars>>

\* the loops are done: return make_gf_from_fourier<0,1>(chi0)
BubbleReturn ==
    /\ bpc = "fill"
    /\ pos >= n_r * n_r * chi0.mtb.size
    /\ bpc' = "return"
    /\ UNCHANGED <<grt, chi0, pos>>
    /\ UNCHANGED <<dmft_vars, tpsc_vars>>

\* ------------------------------------------------------------------------
\* Properties of the bubble

\* C6: when the loops of bubble end, chi0 lives on a bosonic time mesh with
\* the beta and the number of points of g's fermionic time mesh, and at every
\* lattice point r and time point t it holds 2 * g(-r, beta - t) * g(r, t),
\* -r the lattice point that adds up with r to a lattice vector.
C6_BubbleFill ==
    bpc = "return" =>
        /\ chi0.mtb.statistic = "Boson"
        /\ chi0.mtb.beta = grt.mt.beta
        /\ chi0.mtb.size = grt.mt.size
        /\ DOMAIN chi0.data = mr
        /\ \A r \in mr : \A j \in 0 .. (grt.mt.size - 1) :
              \A q \in mr : \A k \in 0 .. (grt.mt.size - 1) :
                  ( /\ (r[1] + q[1]) % n_r = 0
                    /\ (r[2] + q[2]) % n_r = 0
                    /\ j + k = grt.mt.size - 1 ) =>
                  chi0.data[r][j] =
                      CMul(Real(2, 1), CMul(grt.data[q][k], grt.data[r][j]))

\* the bubble of a g that differs between r and -r and between t and beta - t
\* is filled
C6_Witness ==
    /\ bpc = "return"
    /\ grt.data[<<1, 0>>][0] # grt.data[NegR(<<1, 0>>)][0]
    /\ grt.data[<<1, 0>>][0] # grt.data[<<1, 0>>][grt.mt.size - 1]
    /\ \A r \in mr : \A j \in MeshPoints(chi0.mtb) : chi0.data[r][j] # CZero


\* ------------------------------------------------------------------------
\* Properties of the TPSC functions

\* (T/N) * sum over all q and iq_n of chi
TraceTN(chi) ==
    CMul(CMul(COne, CInv(Real(chi.beta * Len(chi.data), 1))), DataSum(chi))

\* chi0 / (1 - (V/2) * chi0) at every q and iq_n
ChiVertex(chi, V) ==
    LET f(c) == CMul(c, CInv(CSub(COne, CMul(CMul(V, Real(1, 2)), c))))
    IN  [data |-> [k \in DOMAIN chi.data |-> [w \in DOMAIN chi.data[k] |-> f(chi.data[k][w])]],
         beta |-> chi.beta]

\* the double occupancy of the ansatz Usp*(n/2)*(n/2) = U*docc
AnsatzDocc(Usp, n, U) ==
    CMul(CMul(Usp, CMul(CMul(n, Real(1, 2)), CMul(n, Real(1, 2)))), CInv(U))

\* the spin sum rule: (T/N) sum chi0/(1 - (Usp/2) chi0) = n - 2 docc
SpinSumRule(Usp, chi0_kw, n, U) ==
    TraceTN(ChiVertex(chi0_kw, Usp)) =
        CSub(n, CMul(Real(2, 1), AnsatzDocc(Usp, n, U)))

\* the charge sum rule: (T/N) sum chi0/(1 + (Uch/2) chi0) = n + 2 docc - n^2
ChargeSumRule(Uch, chi0_kw, n, docc) ==
    TraceTN(ChiVertex(chi0_kw, CNeg(Uch))) =
        CSub(CAdd(n, CMul(Real(2, 1), docc)), CMul(n, n))

\* C3: Usp_root_problem(Usp, chi0, n, U) returns zero exactly when the spin
\* sum rule holds for chi0, with docc given by the ansatz.
C3_UspRootIsSpinSumRule ==
    ("Usp_root_problem" \in DOMAIN out /\ out["Usp_root_problem"] # AssertionError
        /\ IsFinite(out["Usp_root_problem"])) =>
        ((out["Usp_root_problem"] = CZero) <=> SpinSumRule(tp.Usp, tp.chi0, tp.n, tp.U))

\* C4: Uch_root_problem(Uch, chi0, n, U, docc) returns zero exactly when the
\* charge sum rule holds for chi0.
C4_UchRootIsChargeSumRule ==
    ("Uch_root_problem" \in DOMAIN out /\ out["Uch_root_problem"] # AssertionError
        /\ IsFinite(out["Uch_root_problem"])) =>
        ((out["Uch_root_problem"] = CZero) <=> ChargeSumRule(tp.Uch, tp.chi0, tp.n, tp.docc))

\* C5: for the same chi0, n, U, docc and trial vertex the functions of the
\* Mermin-Wagner notebook return what those of the TPSC notebook return:
\* Usp_root as Usp_root_problem, Uch_root as Uch_root_problem, chi_rpa as chi_rpa.
C5_SameFunctions ==
    /\ {"Usp_root", "Usp_root_problem"} \subseteq DOMAIN out =>
          out["Usp_root"] = out["Usp_root_problem"]
    /\ {"Uch_root", "Uch_root_problem"} \subseteq DOMAIN out =>
          out["Uch_root"] = out["Uch_root_problem"]
    /\ {"chi_rpa_mw", "chi_rpa"} \subseteq DOMAIN out =>
          out["chi_rpa_mw"] = out["chi_rpa"]


\* ------------------------------------------------------------------------
\* Properties of the DMFT loop

\* the self-energy the k-th iteration starts from: the initial guess mu, then
\* what the solver run of the iteration before left
SigmaBefore(k) == IF k = 0 THEN ConstBlockGf(mu) ELSE solved[k].Sigma_iw

\* sum over the bins i < n of rho[patch][i] * delta[patch] /
\*     (iOmega_n + mu - epsilon[patch][i] - sigma)
RECURSIVE BinSum(_, _, _, _)
BinSum(patch, sigma, w, n) ==
    IF n = 0 THEN CZero
    ELSE CAdd(BinSum(patch, sigma, w, n - 1),
              CMul(CMul(rho[patch][n - 1], delta[patch]),
                   CInv(CSub(CAdd(iOmega_n(w), mu),
                             CAdd(epsilon[patch][n - 1], sigma)))))

\* C1: whenever S.solve is invoked (the step that appends to the solver runs),
\* every rank's Weiss field satisfies, on every block and frequency,
\* G0 = inverse(inverse(G) + Sigma), with G the lattice Green's function of the
\* iteration and Sigma the self-energy left by the previous solve (mu at first).
C1_WeissBeforeSolve ==
    [][ (solved' # solved) =>
            \A r \in Ranks : \A b \in BlockNames : \A w \in Mesh :
                /\ it[r] = Len(solved)
                /\ IsFinite(S[r].G0_iw[b][w])
                /\ S[r].G0_iw[b][w] =
                       CInv(CAdd(CInv(G[r][b][w]), SigmaBefore(it[r])[b][w])) ]_vars

\* a solver run is about to start in an iteration after the first, so the
\* self-energy in the Weiss field is a solver result
C1_Witness ==
    /\ \A r \in Ranks : pc[r] = "solve" /\ it[r] >= 1
    /\ S[0].Sigma_iw # ConstBlockGf(mu)
    /\ S[0].G0_iw # ConstBlockGf(CZero)

\* C2: at the end of the Hilbert transform step the blocks '<patch>-<spin>' are
\* exactly the blocks of gf_struct, each G[block] is the sum over all n_bins
\* bins of rho*delta/(iOmega_n + mu - epsilon - Sigma[block]) and nothing else,
\* and every bin index is an index of rho[patch] and of epsilon[patch].
C2_HilbertTransform ==
    \A r \in Ranks : pc[r] = "weiss" =>
        /\ {BlockName(p, s) : p \in {"even", "odd"}, s \in {"up", "down"}} = BlockNames
        /\ DOMAIN G[r] = BlockNames
        /\ DOMAIN S[r].Sigma_iw = BlockNames
        /\ \A p \in {"even", "odd"} :
              /\ (0 .. (n_bins - 1)) \subseteq DOMAIN rho[p]
              /\ (0 .. (n_bins - 1)) \subseteq DOMAIN epsilon[p]
              /\ \A s \in {"up", "down"} : \A w \in Mesh :
                    /\ IsFinite(G[r][BlockName(p, s)][w])
                    /\ G[r][BlockName(p, s)][w] =
                           BinSum(p, S[r].Sigma_iw[BlockName(p, s)][w], w, n_bins)

\* the Hilbert transform of a later iteration is finished: G held the previous
\* iteration's sum when the iteration began
C2_Witness ==
    \E r \in Ranks :
        /\ pc[r] = "weiss"
        /\ it[r] >= 1
        /\ G[r]["odd-down"] # ConstGf(CZero)

Init == DmftInit
Next == DmftNext
Spec == Init /\ [][Next]_vars

\* the idle state of the DMFT notebook
DmftIdle ==
    /\ mu = <<>> /\ energies = <<>> /\ epsilon = <<>> /\ rho = <<>> /\ delta = <<>>
    /\ it = <<>> /\ pc = <<>> /\ idx = <<>> /\ G = <<>> /\ S = <<>>
    /\ archive = <<>> /\ solved = <<>>

InitTPSC == DmftIdle /\ BubbleIdle /\ TpscInit

NextTPSC ==
    \/ CallChiRpa
    \/ CallUspRootProblem
    \/ CallUchRootProblem
    \/ CallChiRpaMW
    \/ CallUspRoot
    \/ CallUchRoot

SpecTPSC == InitTPSC /\ [][NextTPSC]_vars

InitBubble ==
    /\ DmftIdle
    /\ TpscIdle
    /\ grt = <<>> /\ chi0 = <<>> /\ bpc = "start" /\ pos = 0

NextBubble ==
    \/ BubbleStart
    \/ Fill
    \/ BubbleReturn

SpecBubble == InitBubble /\ [][NextBubble]_vars
====
